---- MODULE Spec2Model ----
(***************************************************************************)
(* Model of twitter-bookmark-backup.                                       *)
(*   Spec           the incremental backup: HTMLGenerator                  *)
(*                  (src/runner/html_generator.py) as the archive store    *)
(*                  and renderer, backup_all_bookmarks                     *)
(*                  (src/runner/backup.py) as the orchestrator             *)
(*   SpecStartup    the start of the runner: config and credential         *)
(*                  (src/runner/auth.py)                                   *)
(*   SpecNormalize  the normalisation of an API response                   *)
(*                  (process_bookmarks_response), the save of the record   *)
(*                  and the legacy renderer (src/runner/__main__.py)       *)
(*   SpecViewer     the routes of the viewer (src/viewer/server.py)        *)
(*   SpecLegacy     save_bookmark and the index of saved ids of the        *)
(*                  runner entry point (src/runner/__main__.py)            *)
(* The backup directory is modelled as three maps (artifacts, avatars,     *)
(* media files); the network and the file system are an environment whose  *)
(* outcome is chosen per call.                                             *)
(***************************************************************************)
EXTENDS Integers, Sequences, FiniteSets, TLC

(***************************************************************************)
(* Bounds of the model.                                                    *)
(***************************************************************************)
MaxId == 2
MaxBatch == 2
MaxRuns == 2
\* requests of one behaviour that do not take the default course (they fail,
\* or the response declares a content type)
MaxFaults == 1
\* starts of the runner process
MaxLaunches == 2
\* the time at which the credential persisted before the first start expires
ExpiresAt == 1000
\* variants of a video of the API response
MaxVariants == 3
\* artifacts in viewer/bookmarks
MaxFiles == 25
\* the pages a client asks for
MaxPage == 4

Ids == 1..MaxId

(***************************************************************************)
(* Characters and usernames.  A username is a sequence of characters; the  *)
(* alphabet holds an upper-case letter, its lower-case form, another       *)
(* letter and two punctuation characters.                                  *)
(***************************************************************************)
Usernames == {<<"B", "o">>, <<"b", "o">>, <<"o", ".">>, <<"o", "-">>}

\* str.lower() on one character
LowerChar(c) == IF c = "B" THEN "b" ELSE c

\* str.isalnum() on one character
IsAlnum(c) == c \in {"B", "b", "o"}

\* html_generator.py:47  "".join(c if c.isalnum() else "_" for c in username.lower())
SafeUsername(u) ==
    [i \in 1..Len(u) |-> IF IsAlnum(LowerChar(u[i])) THEN LowerChar(u[i]) ELSE "_"]

SafeNames == {SafeUsername(u) : u \in Usernames}

\* html_generator.py:48-49  the avatar file, below the backup directory
AvatarFile(u) == <<"avatars/">> \o SafeUsername(u) \o <<".jpg">>

\* the template, line 273:
\* username|lower|replace('@', '')|replace(' ', '_')|replace('.', '_')
TemplateSafeUsername(u) ==
    LET lowered == [i \in 1..Len(u) |-> LowerChar(u[i])]
        without_at == SelectSeq(lowered, LAMBDA c : c # "@")
    IN  [i \in 1..Len(without_at) |->
            IF without_at[i] \in {" ", "."} THEN "_" ELSE without_at[i]]

\* the template, line 274: 'avatars/' ~ safe_username ~ '.jpg'
AvatarSrc(u) == <<"avatars/">> \o TemplateSafeUsername(u) \o <<".jpg">>

(***************************************************************************)
(* Files.  A file is absent, partial (opened for writing, the stream of    *)
(* chunks broke off) or complete.                                          *)
(***************************************************************************)
Absent == "absent"
Partial == "partial"
Complete == "complete"

MediaKeys == {"k1", "k2", "k3"}
KeyOf(j) == IF j = 1 THEN "k1" ELSE IF j = 2 THEN "k2" ELSE "k3"

\* the extensions download_media can append, and "" (none)
Extensions == {".jpg", ".png", ".gif", ".mp4", ".webm", ".mov", ""}

\* an artifact that was archived before the modelled runs
Archived == [kind |-> "doc", text |-> "t0", urls |-> <<>>]
NoFile == [kind |-> "none", text |-> "", urls |-> <<>>]

\* an artifact of which the write (f.write(html_content)) broke off
TruncatedArtifact == [kind |-> "truncated", text |-> "t0", urls |-> <<>>]

(***************************************************************************)
(* Canonical bookmarks.                                                    *)
(***************************************************************************)
NoAuthor == [present |-> FALSE, username |-> <<>>, profile_image_url |-> "none"]

Author(u, p) == [present |-> TRUE, username |-> u, profile_image_url |-> p]

\* a post has one author: posts 1 and 2 are by the same user, post 3 has no
\* author (users.get(author_id, {})), the author of post 4 has no profile
\* image, then on cyclically
AuthorOf(id) ==
    IF id % 4 \in {1, 2} THEN Author(<<"B", "o">>, "remote")
    ELSE IF id % 4 = 3 THEN NoAuthor
    ELSE Author(<<"o", ".">>, "none")

\* a media url: the remote one of the API, a path below the backup directory
\* (written by save_bookmark), or None
RemoteUrl == [loc |-> "remote", path |-> <<>>]
NoUrl == [loc |-> "none", path |-> <<>>]
LocalUrl(id, key, ext) == [loc |-> "local", path |-> <<id, key, ext>>]

MediaTypes == <<"photo", "video", "animated_gif">>

\* media item j of a post: its media key is KeyOf(j), its type MediaTypes[j],
\* its url the remote one
MediaItem(j) == [media_key |-> KeyOf(j), type |-> MediaTypes[j], url |-> RemoteUrl]

MediaList(n) == [j \in 1..n |-> MediaItem(j)]

\* the attachments of a post: post 1 has a photo and a video, post 2 none,
\* post 3 a photo, post 4 a photo, a video and an animated gif, then on
\* cyclically
MediaOf(id) ==
    IF id % 4 = 1 THEN MediaList(2)
    ELSE IF id % 4 = 2 THEN MediaList(0)
    ELSE IF id % 4 = 3 THEN MediaList(1)
    ELSE MediaList(3)

Texts == <<"t1", "t2", "t3", "t4">>

\* the batch of the posts ids: the record at position i has text Texts[i]
\* (a post that occurs twice occurs with two texts)
BatchOf(ids) ==
    [i \in 1..Len(ids) |->
        [id |-> ids[i], text |-> Texts[i], author |-> AuthorOf(ids[i]),
         media |-> MediaOf(ids[i])]]

SeqsUpTo(S, n) == UNION {[1..k -> S] : k \in 0..n}

Batches == {BatchOf(ids) : ids \in SeqsUpTo(Ids, MaxBatch)}

(***************************************************************************)
(* The environment of one save_bookmark call: the outcome of the avatar    *)
(* request, of each media request, and of opening the artifact for         *)
(* writing.                                                                *)
(*   ok            the request succeeds and the file is written            *)
(*   http_error    requests.get or raise_for_status raises (e.g. a 404)    *)
(*   stream_error  iter_content raises after the file was opened           *)
(***************************************************************************)
DownloadOutcomes == {"ok", "http_error", "stream_error"}
ContentTypes == {"image/png", ""}
WriteOutcomes == {"ok", "io_error"}

\* the content type is read only when the request succeeded
MediaEnvs ==
    [out : {"ok"}, content_type : ContentTypes]
    \cup [out : {"http_error", "stream_error"}, content_type : {""}]

DefaultMediaEnv == [out |-> "ok", content_type |-> ""]

\* the environments of a save_bookmark call on tweet: an outcome is drawn
\* for each request the call can issue
EnvsFor(tweet) ==
    [avatar : IF tweet.author.present /\ tweet.author.profile_image_url = "remote"
              THEN DownloadOutcomes ELSE {"ok"},
     media : [1..Len(tweet.media) -> MediaEnvs],
     html : WriteOutcomes]

\* the requests of env that do not take the default course
Faults(env) ==
    (IF env.avatar # "ok" THEN 1 ELSE 0)
    + Cardinality({j \in DOMAIN env.media : env.media[j] # DefaultMediaEnv})

(***************************************************************************)
(* HTMLGenerator._get_avatar_path.  Returns the new avatar files, whether  *)
(* a request was issued, whether a file was opened for writing and the     *)
(* result ("cached", "downloaded", "failed").                              *)
(***************************************************************************)
\* variant: the check "if avatar_path.exists()" is missing
GetAvatarPathNoCache(username, avatars, out) ==
    LET safe_username == SafeUsername(username) IN
    IF out = "http_error"
    THEN [avatars |-> avatars, requested |-> TRUE, opened |-> FALSE, result |-> "failed"]
    ELSE IF out = "stream_error"
    THEN [avatars |-> [avatars EXCEPT ![safe_username] = Partial],
          requested |-> TRUE, opened |-> TRUE, result |-> "failed"]
    ELSE [avatars |-> [avatars EXCEPT ![safe_username] = Complete],
          requested |-> TRUE, opened |-> TRUE, result |-> "downloaded"]

GetAvatarPath(username, avatars, out) ==
    LET safe_username == SafeUsername(username) IN
    IF avatars[safe_username] # Absent
    THEN [avatars |-> avatars, requested |-> FALSE, opened |-> FALSE, result |-> "cached"]
    ELSE IF out = "http_error"
    THEN [avatars |-> avatars, requested |-> TRUE, opened |-> FALSE, result |-> "failed"]
    ELSE IF out = "stream_error"
    THEN [avatars |-> [avatars EXCEPT ![safe_username] = Partial],
          requested |-> TRUE, opened |-> TRUE, result |-> "failed"]
    ELSE [avatars |-> [avatars EXCEPT ![safe_username] = Complete],
          requested |-> TRUE, opened |-> TRUE, result |-> "downloaded"]

(***************************************************************************)
(* HTMLGenerator._media_file_exists / _find_existing_media_file            *)
(***************************************************************************)
AllExtensions == <<".jpg", ".png", ".gif", ".mp4", ".webm", ".mov">>

TypeExtension(media_type) ==
    IF media_type = "video" THEN ".mp4"
    ELSE IF media_type = "photo" THEN ".jpg"
    ELSE ""

ExtensionsToCheck(media_type) ==
    IF TypeExtension(media_type) # "" THEN <<TypeExtension(media_type)>>
    ELSE AllExtensions

MediaFileExists(files, tweet_id, media_key, media_type) ==
    \E i \in 1..Len(ExtensionsToCheck(media_type)) :
        <<tweet_id, media_key, ExtensionsToCheck(media_type)[i]>> \in files

FindExistingMediaFile(files, tweet_id, media_key, media_type) ==
    LET exts == ExtensionsToCheck(media_type)
        hits == {i \in 1..Len(exts) : <<tweet_id, media_key, exts[i]>> \in files}
        first == CHOOSE i \in hits : \A j \in hits : i <= j
    IN  exts[first]

(***************************************************************************)
(* HTMLGenerator.download_media: the extension is sniffed from the         *)
(* content type of the response, then from the media type.                 *)
(***************************************************************************)
IsVideoContent(ct) == ct \in {"video/mp4", "video/webm", "video/quicktime", "video/x-other"}
IsImageContent(ct) == ct \in {"image/jpeg", "image/jpg", "image/png", "image/gif", "image/x-other"}

SniffExtension(ct, media_type) ==
    IF IsVideoContent(ct) THEN
        IF ct = "video/mp4" THEN ".mp4"
        ELSE IF ct = "video/webm" THEN ".webm"
        ELSE IF ct = "video/quicktime" THEN ".mov"
        ELSE ".mp4"
    ELSE IF IsImageContent(ct) THEN
        IF ct \in {"image/jpeg", "image/jpg"} THEN ".jpg"
        ELSE IF ct = "image/png" THEN ".png"
        ELSE IF ct = "image/gif" THEN ".gif"
        ELSE ".jpg"
    ELSE IF media_type = "video" THEN ".mp4"
    ELSE IF media_type = "photo" THEN ".jpg"
    ELSE ""

\* download_media, lines 149-160, for the extension ext.  fs is [files,
\* truncated]: the names in media/ and those of them whose content broke
\* off.  Returns the new fs and the local path (NoUrl for None);
\* requests.get raises on a url that is not a remote one.
StoreMedia(fs, media_url, name, out) ==
    IF media_url.loc # "remote" \/ out = "http_error"
    THEN [files |-> fs.files, truncated |-> fs.truncated, opened |-> FALSE, path |-> NoUrl]
    ELSE IF out = "stream_error"
    THEN [files |-> fs.files \cup {name}, truncated |-> fs.truncated \cup {name},
          opened |-> TRUE, path |-> NoUrl]
    ELSE [files |-> fs.files \cup {name}, truncated |-> fs.truncated \ {name},
          opened |-> TRUE, path |-> LocalUrl(name[1], name[2], name[3])]

DownloadMedia(fs, media_url, tweet_id, media_key, media_type, env) ==
    StoreMedia(fs, media_url,
               <<tweet_id, media_key, SniffExtension(env.content_type, media_type)>>,
               env.out)

(***************************************************************************)
(* HTMLGenerator.generate_html.  The block tags of template_str in source  *)
(* order; closed is FALSE for a tag that is not terminated by "%}".        *)
(* Template(template_str) compiles the template on every call: the lexer   *)
(* rejects a "}" that closes nothing, the parser rejects else / elif /     *)
(* endif / endfor outside the block they belong to.                        *)
(***************************************************************************)
TemplateTags ==
    << [kw |-> "set",    closed |-> TRUE],     \* line 270
       [kw |-> "set",    closed |-> TRUE],     \* line 271
       [kw |-> "set",    closed |-> TRUE],     \* line 272
       [kw |-> "set",    closed |-> FALSE],    \* line 273, ends with "}}"
       [kw |-> "set",    closed |-> TRUE],     \* line 274
       [kw |-> "else",   closed |-> TRUE],     \* line 285
       [kw |-> "endif",  closed |-> TRUE],     \* line 291
       [kw |-> "if",     closed |-> TRUE],     \* line 298
       [kw |-> "for",    closed |-> TRUE],     \* line 300
       [kw |-> "if",     closed |-> TRUE],     \* line 301
       [kw |-> "elif",   closed |-> TRUE],     \* line 303
       [kw |-> "endif",  closed |-> TRUE],     \* line 308
       [kw |-> "endfor", closed |-> TRUE],     \* line 309
       [kw |-> "endif",  closed |-> TRUE] >>   \* line 311

Top(stack) == IF stack = <<>> THEN "" ELSE stack[Len(stack)]
Pop(stack) == SubSeq(stack, 1, Len(stack) - 1)

RECURSIVE ParseTags(_, _, _)
ParseTags(tags, i, stack) ==
    IF i > Len(tags) THEN stack = <<>>
    ELSE IF ~tags[i].closed THEN FALSE
    ELSE IF tags[i].kw = "set" THEN ParseTags(tags, i + 1, stack)
    ELSE IF tags[i].kw \in {"if", "for"} THEN ParseTags(tags, i + 1, Append(stack, tags[i].kw))
    ELSE IF tags[i].kw = "elif" THEN Top(stack) = "if" /\ ParseTags(tags, i + 1, stack)
    ELSE IF tags[i].kw = "else" THEN Top(stack) \in {"if", "for"} /\ ParseTags(tags, i + 1, stack)
    ELSE IF tags[i].kw = "endif" THEN Top(stack) = "if" /\ ParseTags(tags, i + 1, Pop(stack))
    ELSE IF tags[i].kw = "endfor" THEN Top(stack) = "for" /\ ParseTags(tags, i + 1, Pop(stack))
    ELSE FALSE

\* Template(template_str) returns a template (TRUE) or raises TemplateSyntaxError
TemplateCompiles == ParseTags(TemplateTags, 1, <<>>)

\* the document template.render produces for a tweet
Render(tweet) ==
    [kind |-> "doc", text |-> tweet.text,
     urls |-> [j \in 1..Len(tweet.media) |-> tweet.media[j].url]]

GenerateHtml(tweet) ==
    IF TemplateCompiles
    THEN [raised |-> FALSE, html_content |-> Render(tweet)]
    ELSE [raised |-> TRUE, html_content |-> NoFile]

(***************************************************************************)
(* HTMLGenerator.save_bookmark, lines 364-382: the loop over the media of  *)
(* the tweet.  st holds the media files, the media list (its urls are      *)
(* rewritten in place), the requests issued, the files opened for writing  *)
(* and, per item, what was done with it.                                   *)
(***************************************************************************)
\* lines 379-382: the item was downloaded, d is what download_media did
Downloaded(st, j, d) ==
    [st EXCEPT !.files = d.files, !.truncated = d.truncated,
               !.media[j].url = IF d.path # NoUrl THEN d.path ELSE @,
               !.requests = @ + 1,
               !.opens = @ + (IF d.opened THEN 1 ELSE 0),
               !.acts = Append(@, IF d.path # NoUrl THEN "downloaded" ELSE "failed")]

\* one iteration of the loop, on item j = m
ResolveItem(tweet_id, env, j, m, st) ==
    IF m.type \notin {"photo", "video"}
    THEN [st EXCEPT !.acts = Append(@, "untouched")]
    ELSE IF MediaFileExists(st.files, tweet_id, m.media_key, m.type)
    THEN [st EXCEPT !.media[j].url =
                        LocalUrl(tweet_id, m.media_key,
                                 FindExistingMediaFile(st.files, tweet_id, m.media_key, m.type)),
                    !.acts = Append(@, "reused")]
    ELSE Downloaded(st, j, DownloadMedia(st, m.url, tweet_id, m.media_key, m.type, env))

\* the loop: after[j] is the state after the first j items
ResolveMedia(tweet_id, env, st) ==
    LET after[j \in 0..Len(st.media)] ==
            IF j = 0 THEN st ELSE ResolveItem(tweet_id, env[j], j, st.media[j], after[j - 1])
    IN  after[Len(st.media)]

\* variant: the check looks for a file name that is never written
HtmlFileExistsWrongName(h, tweet_id) == FALSE

\* variant: a file that is not a complete artifact does not count
HtmlFileExistsComplete(h, tweet_id) ==
    h[tweet_id] # NoFile /\ h[tweet_id] # TruncatedArtifact

\* HTMLGenerator._html_file_exists
HtmlFileExists(h, tweet_id) == h[tweet_id] # NoFile

\* variant: the artifact is opened for writing (created or truncated) on
\* entry, before the existence check
TrySaveBookmarkOpensFirst(tweet, disk, env) ==
    [html |-> [disk.html EXCEPT ![tweet.id] = [kind |-> "doc", text |-> "", urls |-> <<>>]],
     avatars |-> disk.avatars, files |-> disk.files, truncated |-> disk.truncated,
     tweet |-> tweet, ret |-> FALSE, raised |-> FALSE, requests |-> 0, opens |-> 1,
     avatar |-> "none", acts |-> <<>>, rendered |-> FALSE, error |-> "none"]

\* the result of a call that has done nothing yet
Entered(tweet, disk) ==
    [html |-> disk.html, avatars |-> disk.avatars, files |-> disk.files,
     truncated |-> disk.truncated,
     tweet |-> tweet, ret |-> FALSE, raised |-> FALSE,
     requests |-> 0, opens |-> 0,
     avatar |-> "none", acts |-> <<>>, rendered |-> FALSE,
     error |-> "none"]

\* lines 344-362: the avatar of the author
ResolveAvatar(tweet, disk, env) ==
    IF tweet.author.present /\ tweet.author.profile_image_url = "remote"
    THEN GetAvatarPath(tweet.author.username, disk.avatars, env.avatar)
    ELSE [avatars |-> disk.avatars, requested |-> FALSE, opened |-> FALSE,
          result |-> "none"]

\* lines 344-382: r after the avatar (a) and the media (st) were resolved
Resolved(r, a, st) ==
    [r EXCEPT !.avatars = a.avatars, !.files = st.files,
              !.truncated = st.truncated,
              !.tweet.media = st.media,
              !.requests = st.requests + (IF a.requested THEN 1 ELSE 0),
              !.opens = st.opens + (IF a.opened THEN 1 ELSE 0),
              !.avatar = a.result, !.acts = st.acts]

\* lines 384-393: g is what generate_html did, out the outcome of opening
\* the artifact for writing
Persist(r, g, out) ==
    IF g.raised THEN [r EXCEPT !.raised = TRUE, !.error = "render"]
    ELSE IF out = "io_error"
    THEN [r EXCEPT !.rendered = TRUE, !.opens = @ + 1, !.raised = TRUE,
                   !.error = "write"]
    ELSE [r EXCEPT !.rendered = TRUE, !.opens = @ + 1,
                   !.html[r.tweet.id] = g.html_content, !.ret = TRUE]

RenderAndPersist(r, out) == Persist(r, GenerateHtml(r.tweet), out)

\* the body of the try block, lines 337-393
TrySaveBookmark(tweet, disk, env) ==
    IF HtmlFileExists(disk.html, tweet.id) THEN Entered(tweet, disk)
    ELSE RenderAndPersist(
             Resolved(Entered(tweet, disk),
                      ResolveAvatar(tweet, disk, env),
                      ResolveMedia(tweet.id, env.media,
                          [files |-> disk.files, truncated |-> disk.truncated,
                           media |-> tweet.media,
                           requests |-> 0, opens |-> 0, acts |-> <<>>])),
             env.html)

\* variant: the except branch returns True
CaughtReturnsTrue(r) ==
    IF r.raised THEN [r EXCEPT !.raised = FALSE, !.ret = TRUE] ELSE r

\* variant: no try/except around the body
NotCaught(r) == r

\* lines 395-397: except Exception: log, return False
Caught(r) ==
    IF r.raised THEN [r EXCEPT !.raised = FALSE, !.ret = FALSE] ELSE r

SaveBookmark(tweet, disk, env) == Caught(TrySaveBookmark(tweet, disk, env))

(***************************************************************************)
(* State.                                                                  *)
(*   html, avatars, files   the backup directory: bookmark_<id>.html,      *)
(*                          avatars/<safe_username>.jpg, the names         *)
(*                          <id>_<media_key><ext> in media/                *)
(*   truncated              the media files whose content broke off        *)
(*   faults                 requests that did not take the default course  *)
(*   snapshot               the batch as captured (api_responses file, or  *)
(*                          what the API returns)                          *)
(*   bookmarks              the list backup_all_bookmarks iterates; the    *)
(*                          urls of its media are rewritten in place       *)
(*   pc, idx, saved_count   position of backup_all_bookmarks               *)
(*   run                    number of the run                              *)
(*   stats, prev            of this run and of the run before it: the      *)
(*                          requests issued, the files opened for          *)
(*                          writing, the reported count, the length of     *)
(*                          the list processed, whether a download failed  *)
(*                          and whether the list was fetched               *)
(*   results                values save_bookmark returned in this run      *)
(*   last                   what the last save_bookmark call did           *)
(*   avatarDone             usernames whose avatar has been downloaded     *)
(*   html0                  the artifacts at the start of the run          *)
(*   call                   the argument of this backup_all_bookmarks call *)
(*                          and what its get_bookmarks call did            *)
(***************************************************************************)
VARIABLES html, avatars, files, truncated, snapshot, bookmarks, pc, idx,
          saved_count, run, stats, prev, results, last, avatarDone, faults,
          html0, call

(***************************************************************************)
(* State of the start of the runner: TwitterBookmarkBackup.__init__, which *)
(* goes through TwitterAuth.                                               *)
(*   config        config.json: "absent", "stub" (the default written by   *)
(*                 _create_default_config) or "filled"                     *)
(*   token_file    oauth2_token.json, the persisted credential             *)
(*   now           time.time()                                             *)
(*   step          position of __init__                                    *)
(*   token_data    the credential get_oauth2_token read                    *)
(*   events        what the process has done, in order                     *)
(*   status        "running", "ready" (__init__ returned) or "exit1"       *)
(*                 (sys.exit(1))                                           *)
(*   access_token  the access token get_oauth2_token returned, 0 for none  *)
(*   backup_dir    whether viewer/bookmarks has been created               *)
(*   launches      starts of the process so far                            *)
(***************************************************************************)
VARIABLES config, token_file, now, step, token_data, events, status,
          access_token, backup_dir, launches

backupVars == <<html, avatars, files, truncated, snapshot, bookmarks, pc, idx,
                saved_count, run, stats, prev, results, last, avatarDone, faults,
                html0, call>>

startupVars == <<config, token_file, now, step, token_data, events, status,
                 access_token, backup_dir, launches>>

(***************************************************************************)
(* State of the normalisation of an API response and of the legacy         *)
(* renderer.                                                               *)
(*   response      the response of client.get_bookmarks: one tweet, the    *)
(*                 user and the media object of the includes               *)
(*   legacy_doc    what generate_html of src/runner/__main__.py made of    *)
(*                 the normalised record                                   *)
(***************************************************************************)
VARIABLES response, legacy_doc

normalizeVars == <<response, legacy_doc>>

(***************************************************************************)
(* State of the viewer (src/viewer/server.py).                             *)
(*   stored    the files bookmark_<id>.html in viewer/bookmarks: stored[i] *)
(*             is the content of bookmark_<i>.html                         *)
(*   reply     the last response of the viewer, with its route (kind) and  *)
(*             the page asked                                              *)
(***************************************************************************)
VARIABLES stored, reply

viewerVars == <<stored, reply>>

(***************************************************************************)
(* State of the TwitterBookmarkBackup of src/runner/__main__.py.           *)
(*   saved_bookmarks       self.saved_bookmarks, the index in memory       *)
(*   saved_bookmarks_file  bookmark_backups/saved_bookmarks.json: whether  *)
(*                         json.load reads it, and the ids it holds        *)
(*   legacy_html           the files bookmark_<id>.html of                 *)
(*                         bookmark_backups: absent, partial or complete   *)
(*   legacy_files          the names in bookmark_backups/media             *)
(*   legacy_last           the last save_bookmark call of the process      *)
(*   legacy_pc             "running", or "exit1" when __init__ raised      *)
(***************************************************************************)
VARIABLES saved_bookmarks, saved_bookmarks_file, legacy_html, legacy_files,
          legacy_last, legacy_pc

legacyVars == <<saved_bookmarks, saved_bookmarks_file, legacy_html, legacy_files,
                legacy_last, legacy_pc>>

vars == <<backupVars, startupVars, normalizeVars, viewerVars, legacyVars>>

\* what an action of the backup run leaves alone
notBackupVars == <<startupVars, normalizeVars, viewerVars, legacyVars>>

\* what an action of the start of the runner leaves alone
notStartupVars == <<backupVars, normalizeVars, viewerVars, legacyVars>>

Disk == [html |-> html, avatars |-> avatars, files |-> files, truncated |-> truncated]

NoStats == [requests |-> 0, opens |-> 0, saved |-> 0, len |-> 0, failed |-> FALSE,
            finished |-> FALSE, fetched |-> FALSE]

NoCall == [valid |-> FALSE, id |-> 0, existed |-> FALSE, tweet |-> <<>>,
           ret |-> FALSE, avatar |-> "none", acts |-> <<>>,
           requests |-> 0, opens |-> 0, error |-> "none", username |-> <<>>]

\* oauth2_token.json does not exist
NoToken == [exists |-> FALSE, access_token |-> 0, expires_at |-> 0, refresh_token |-> FALSE]

\* the runner has started: the config is filled in, a credential was
\* obtained and persisted, the backup directory exists
Started ==
    /\ config = "filled"
    /\ token_file = [exists |-> TRUE, access_token |-> 1, expires_at |-> ExpiresAt,
                     refresh_token |-> TRUE]
    /\ now = 0
    /\ step = "done"
    /\ token_data = token_file
    /\ events = <<>>
    /\ status = "ready"
    /\ access_token = 1
    /\ backup_dir = TRUE
    /\ launches = 1

\* no response, nothing rendered
NoResponse == [tweet |-> <<>>, user |-> <<>>, media |-> <<>>]
NoDoc == [kind |-> "none"]

NoNormalize ==
    /\ response = NoResponse
    /\ legacy_doc = NoDoc

\* no request to the viewer
NoReply ==
    [kind |-> "none", status |-> "none", page |-> 0, bookmarks |-> <<>>,
     has_more |-> FALSE, total |-> 0]

NoViewer ==
    /\ stored = <<>>
    /\ reply = NoReply

\* saved_bookmarks.json is absent (or holds [])
NoIndexFile == [readable |-> TRUE, ids |-> {}]

NoLegacyCall ==
    [valid |-> FALSE, id |-> 0, indexed |-> FALSE, ret |-> FALSE,
     requests |-> 0, opens |-> 0]

\* a new bookmark_backups directory and a process that has made no call
NoLegacy ==
    /\ saved_bookmarks = {}
    /\ saved_bookmarks_file = NoIndexFile
    /\ legacy_html = [i \in Ids |-> Absent]
    /\ legacy_files = {}
    /\ legacy_last = NoLegacyCall
    /\ legacy_pc = "running"

\* before the first run
NoRun == [given |-> FALSE, list |-> <<>>, fetch |-> "not_called"]

\* the sets of posts that can be archived before the modelled runs
ArchivedAtStart == {{}, {1}}

\* HTMLGenerator.__init__ on a backup directory that holds the artifacts of
\* earlier runs; avatars/ exists and is empty, media/ is empty
Init ==
    /\ \E archived \in ArchivedAtStart :
          \E broken \in SUBSET archived :
              html = [i \in Ids |-> IF i \in broken THEN TruncatedArtifact
                                    ELSE IF i \in archived THEN Archived
                                    ELSE NoFile]
    /\ avatars = [n \in SafeNames |-> Absent]
    /\ files = {}
    /\ truncated = {}
    /\ faults = 0
    /\ html0 = html
    /\ snapshot \in Batches
    /\ bookmarks = <<>>
    /\ pc = "idle"
    /\ idx = 1
    /\ saved_count = 0
    /\ run = 0
    /\ stats = NoStats
    /\ prev = NoStats
    /\ results = <<>>
    /\ last = NoCall
    /\ avatarDone = {}
    /\ call = NoRun
    /\ Started
    /\ NoNormalize
    /\ NoViewer
    /\ NoLegacy

\* what client.get_bookmarks does: it returns a response with data, returns
\* a response without data, or raises (Unauthorized, Forbidden, ...)
FetchOutcomes == {"data", "no_data", "raises"}

\* variant: when the request fails, the list of the last capture is returned
GetBookmarksStale(processed, out) == processed

\* TwitterBookmarkBackup.get_bookmarks: the processed response, or [] when
\* the response has no data or the call raised
GetBookmarks(processed, out) ==
    IF out = "raises" THEN <<>>
    ELSE IF out = "no_data" THEN <<>>
    ELSE processed

\* the argument bookmarks of backup_all_bookmarks: None (the default) or a
\* list
NoOverride == [given |-> FALSE, list |-> <<>>]
Override(list) == [given |-> TRUE, list |-> list]

\* line 155: if not bookmarks
NeedsFetch(arg) == ~arg.given \/ arg.list = <<>>

\* backup_all_bookmarks, lines 151-158, in a new process: the list is the
\* one passed in (the snapshot read back, or an empty list), or the fetched
\* one
StartRun ==
    /\ pc \in {"idle", "done"}
    /\ run < MaxRuns
    /\ \E arg \in {NoOverride, Override(<<>>), Override(snapshot)}, out \in FetchOutcomes :
          /\ ~NeedsFetch(arg) => out = "data"
          /\ bookmarks' = IF NeedsFetch(arg) THEN GetBookmarks(snapshot, out) ELSE arg.list
          /\ call' = [given |-> arg.given, list |-> arg.list,
                      fetch |-> IF NeedsFetch(arg) THEN out ELSE "not_called"]
          /\ stats' = [NoStats EXCEPT !.len = Len(bookmarks'), !.fetched = NeedsFetch(arg)]
    /\ prev' = stats
    /\ run' = run + 1
    /\ pc' = "loop"
    /\ idx' = 1
    /\ saved_count' = 0
    /\ results' = <<>>
    /\ html0' = html
    /\ UNCHANGED <<html, avatars, files, truncated, snapshot, last, avatarDone, faults>>
    /\ UNCHANGED notBackupVars

\* variant: every record is counted
CountSavedAlways(count, ret) == count + 1

\* backup_all_bookmarks, lines 160-161: if save_bookmark(...): saved_count += 1
CountSaved(count, ret) == IF ret THEN count + 1 ELSE count

\* backup_all_bookmarks, lines 159-161: one iteration of the loop
SaveStep ==
    /\ pc = "loop"
    /\ idx <= Len(bookmarks)
    /\ \E env \in EnvsFor(bookmarks[idx]) :
        \E tweet \in {bookmarks[idx]} :
        \E r \in {SaveBookmark(tweet, Disk, env)} :
          /\ faults + Faults(env) <= MaxFaults
          /\ faults' = faults + Faults(env)
          /\ truncated' = r.truncated
          /\ html' = r.html
          /\ avatars' = r.avatars
          /\ files' = r.files
          /\ bookmarks' = [bookmarks EXCEPT ![idx] = r.tweet]
          /\ last' = [valid |-> TRUE, id |-> tweet.id, existed |-> html[tweet.id] # NoFile,
                      tweet |-> r.tweet, ret |-> r.ret, avatar |-> r.avatar,
                      acts |-> r.acts,
                      requests |-> r.requests, opens |-> r.opens, error |-> r.error,
                      username |-> tweet.author.username]
          /\ avatarDone' = IF r.avatar = "downloaded"
                           THEN avatarDone \cup {tweet.author.username} ELSE avatarDone
          /\ stats' = [stats EXCEPT
                          !.requests = @ + r.requests,
                          !.opens = @ + r.opens,
                          !.failed = @ \/ r.avatar = "failed"
                                       \/ \E j \in 1..Len(r.acts) : r.acts[j] = "failed"]
          /\ IF r.raised
             THEN /\ pc' = "crashed"
                  /\ UNCHANGED <<idx, saved_count, results>>
             ELSE /\ pc' = pc
                  /\ idx' = idx + 1
                  /\ saved_count' = CountSaved(saved_count, r.ret)
                  /\ results' = Append(results, r.ret)
    /\ UNCHANGED <<snapshot, run, prev, html0, call>>
    /\ UNCHANGED notBackupVars

\* backup_all_bookmarks, line 163: the loop is over, the count is reported
FinishRun ==
    /\ pc = "loop"
    /\ idx > Len(bookmarks)
    /\ pc' = "done"
    /\ stats' = [stats EXCEPT !.saved = saved_count, !.finished = TRUE]
    /\ UNCHANGED <<html, avatars, files, truncated, snapshot, bookmarks, idx,
                   saved_count, run, prev, results, last, avatarDone, faults,
                   html0, call>>
    /\ UNCHANGED notBackupVars

Next == StartRun \/ SaveStep \/ FinishRun

Spec == Init /\ [][Next]_vars

(***************************************************************************)
(* The start of the runner: TwitterBookmarkBackup.__init__                 *)
(* (src/runner/backup.py) and TwitterAuth (src/runner/auth.py).            *)
(***************************************************************************)
\* auth.py:59, the buffer of is_token_expired in seconds
Margin == 300

\* the lifetime of an access token the authorization server issues
Lifetime == 7200

\* the times of a start of the process: around the expiry of the first
\* credential, one margin before and after it
Times == {ExpiresAt - Margin - 1, ExpiresAt - Margin, ExpiresAt,
          ExpiresAt + Margin - 1, ExpiresAt + Margin}

\* the credentials that can be persisted before the first start: none, one
\* without an access token, and one with access token 1 with or without the
\* keys expires_at (0: the key is missing) and refresh_token
StoredTokens ==
    {NoToken}
    \cup [exists : {TRUE}, access_token : {0}, expires_at : {ExpiresAt},
          refresh_token : {TRUE}]
    \cup [exists : {TRUE}, access_token : {1}, expires_at : {0, ExpiresAt},
          refresh_token : BOOLEAN]

\* the credential the authorization server issues at time t to start n of
\* the process
NewToken(n, t) ==
    [exists |-> TRUE, access_token |-> n + 1, expires_at |-> t + Lifetime,
     refresh_token |-> TRUE]

\* variant: the default config is written and the process goes on
LoadConfigNoExit(cfg) ==
    IF cfg = "absent" THEN [config |-> "stub", exits |-> FALSE]
    ELSE [config |-> cfg, exits |-> FALSE]

\* TwitterAuth._load_config and _create_default_config
LoadConfigFile(cfg) ==
    IF cfg = "absent" THEN [config |-> "stub", exits |-> TRUE]
    ELSE [config |-> cfg, exits |-> FALSE]

\* variant: a credential without expires_at is taken as not expired
IsTokenExpiredUnknownIsValid(td, t) ==
    IF td.expires_at = 0 THEN FALSE
    ELSE LET current_time == t - Margin IN current_time >= td.expires_at

\* TwitterAuth.is_token_expired
IsTokenExpired(td, t) ==
    IF td.expires_at = 0 THEN TRUE
    ELSE LET current_time == t - Margin IN current_time >= td.expires_at

\* variant: an expired credential goes to the authorization flow at once
StoredTokenStepNoRefresh(td, t) ==
    IF td.exists /\ td.access_token # 0 /\ ~IsTokenExpired(td, t) THEN "return"
    ELSE "authorize"

\* get_oauth2_token, lines 91-109: what is done with the credential read
\* from oauth2_token.json
StoredTokenStep(td, t) ==
    IF td.exists /\ td.access_token # 0
    THEN IF ~IsTokenExpired(td, t) THEN "return"
         ELSE IF td.refresh_token THEN "refresh"
         ELSE "authorize"
    ELSE "authorize"

\* the backup run is not modelled while the process starts: an empty
\* backup directory, no run
BackupIdle ==
    /\ html = [i \in Ids |-> NoFile]
    /\ avatars = [n \in SafeNames |-> Absent]
    /\ files = {}
    /\ truncated = {}
    /\ faults = 0
    /\ html0 = html
    /\ snapshot = <<>>
    /\ bookmarks = <<>>
    /\ pc = "idle"
    /\ idx = 1
    /\ saved_count = 0
    /\ run = 0
    /\ stats = NoStats
    /\ prev = NoStats
    /\ results = <<>>
    /\ last = NoCall
    /\ avatarDone = {}
    /\ call = NoRun

\* the process starts: TwitterBookmarkBackup() is called
InitStartup ==
    /\ BackupIdle
    /\ config \in {"absent", "stub", "filled"}
    /\ token_file \in StoredTokens
    /\ now \in Times
    /\ step = "new"
    /\ token_data = NoToken
    /\ events = <<>>
    /\ status = "running"
    /\ access_token = 0
    /\ backup_dir \in BOOLEAN
    /\ launches = 1
    /\ NoNormalize
    /\ NoViewer
    /\ NoLegacy

\* TwitterAuth.__init__: self.config = self._load_config()
LoadConfig ==
    /\ status = "running" /\ step = "new"
    /\ \E c \in {LoadConfigFile(config)} :
          /\ config' = c.config
          /\ IF c.exits
             THEN /\ status' = "exit1"
                  /\ events' = Append(events, "write_config")
                  /\ step' = step
             ELSE /\ status' = status
                  /\ events' = Append(events, "read_config")
                  /\ step' = "token"
    /\ UNCHANGED <<token_file, now, token_data, access_token, backup_dir, launches>>
    /\ UNCHANGED notStartupVars

\* get_oauth2_token, lines 91-109: the persisted credential is read and
\* returned when it has an access token that is not expired
CheckStoredToken ==
    /\ status = "running" /\ step = "token"
    /\ token_data' = token_file
    /\ events' = IF token_file.exists THEN Append(events, "read_token") ELSE events
    /\ \E todo \in {StoredTokenStep(token_file, now)} :
          IF todo = "return"
          THEN /\ access_token' = token_file.access_token
               /\ step' = "client"
          ELSE /\ access_token' = access_token
               /\ step' = todo
    /\ UNCHANGED <<config, token_file, now, status, backup_dir, launches>>
    /\ UNCHANGED notStartupVars

\* refresh_oauth2_token and get_oauth2_token, lines 105-109: the refresh
\* request succeeds, and the new credential is persisted and returned, or
\* it raises and None is returned
RefreshToken ==
    /\ status = "running" /\ step = "refresh"
    /\ \E out \in {"ok", "fails"} :
          IF out = "ok"
          THEN /\ token_file' = NewToken(launches, now)
               /\ access_token' = token_file'.access_token
               /\ events' = events \o <<"refresh_ok", "write_token">>
               /\ step' = "client"
          ELSE /\ token_file' = token_file
               /\ access_token' = access_token
               /\ events' = Append(events, "refresh_failed")
               /\ step' = "authorize"
    /\ UNCHANGED <<config, now, token_data, status, backup_dir, launches>>
    /\ UNCHANGED notStartupVars

\* get_oauth2_token, lines 111-148: the authorization-code flow.  The
\* operator enters a code and the token request succeeds, or enters
\* nothing, or a request raises
Authorize ==
    /\ status = "running" /\ step = "authorize"
    /\ \E out \in {"ok", "no_code", "fails"} :
          IF out = "ok"
          THEN /\ token_file' = NewToken(launches, now)
               /\ access_token' = token_file'.access_token
               /\ events' = events \o <<"authorize_ok", "write_token">>
               /\ step' = "client"
               /\ status' = status
          ELSE /\ token_file' = token_file
               /\ access_token' = access_token
               /\ events' = Append(events, IF out = "no_code" THEN "authorize_no_code"
                                           ELSE "authorize_failed")
               /\ step' = step
               /\ status' = "exit1"
    /\ UNCHANGED <<config, now, token_data, backup_dir, launches>>
    /\ UNCHANGED notStartupVars

\* setup_client, lines 154-158, and TwitterBookmarkBackup.__init__, lines
\* 30-32: the client is built, viewer/bookmarks and avatars/ are created
FinishInit ==
    /\ status = "running" /\ step = "client"
    /\ backup_dir' = TRUE
    /\ events' = Append(events, "mkdir_backup")
    /\ step' = "done"
    /\ status' = "ready"
    /\ UNCHANGED <<config, token_file, now, token_data, access_token, launches>>
    /\ UNCHANGED notStartupVars

\* the process is started again, at the same or a later time; the operator
\* may have filled in the default config
Launch ==
    /\ status \in {"exit1", "ready"}
    /\ launches < MaxLaunches
    /\ launches' = launches + 1
    /\ config' \in {config} \cup (IF config = "stub" THEN {"filled"} ELSE {})
    /\ now' \in {t \in Times : t >= now}
    /\ step' = "new"
    /\ token_data' = NoToken
    /\ events' = <<>>
    /\ status' = "running"
    /\ access_token' = 0
    /\ UNCHANGED <<token_file, backup_dir>>
    /\ UNCHANGED notStartupVars

NextStartup ==
    LoadConfig \/ CheckStoredToken \/ RefreshToken \/ Authorize \/ FinishInit \/ Launch

SpecStartup == InitStartup /\ [][NextStartup]_vars

(***************************************************************************)
(* The normalisation of an API response:                                   *)
(* TwitterBookmarkBackup.process_bookmarks_response (src/runner/backup.py).*)
(* A string that reaches the HTML is a sequence of characters.             *)
(***************************************************************************)
\* the bit rates of a variant; 0 stands for a variant without the key
\* bit_rate (x.get('bit_rate', 0))
BitRates == {0, 256000, 800000}

\* the content types of a variant: an MP4 rendition and the HLS playlist
VariantContentTypes == {"video/mp4", "application/x-mpegURL"}

\* v.get('content_type', '').startswith('video/')
StartsWithVideo(content_type) == content_type \in {"video/mp4", "video/webm"}

\* a url of the response
Url(name) == [loc |-> "remote", path |-> <<name>>]

VariantNames == <<"v1", "v2", "v3", "v4", "v5">>

\* the variant lists of a video: variant i has url VariantNames[i]
VariantLists ==
    {[i \in 1..Len(kinds) |->
         [content_type |-> kinds[i].content_type, bit_rate |-> kinds[i].bit_rate,
          url |-> Url(VariantNames[i])]] :
     kinds \in SeqsUpTo([content_type : VariantContentTypes, bit_rate : BitRates],
                        MaxVariants)}

\* the media objects of the includes: a photo with or without url and
\* preview image, a video with its variants, with or without preview image,
\* an animated gif with its preview image, with or without url
MediaObjects ==
    [media_key : {"k1"}, type : {"photo"}, url : {NoUrl, Url("photo")},
     preview_image_url : {NoUrl, Url("preview")}, variants : {<<>>}]
    \cup [media_key : {"k1"}, type : {"video"}, url : {NoUrl},
          preview_image_url : {NoUrl, Url("preview")}, variants : VariantLists]
    \cup [media_key : {"k1"}, type : {"animated_gif"}, url : {NoUrl, Url("gif")},
          preview_image_url : {Url("preview")}, variants : {<<>>}]

\* the texts of a tweet and the names of a user: plain, or with markup
TweetTexts == {<<"h", "i">>, <<"<", "b", ">">>}
UserNames == {<<"A", "l">>, <<"<", "i", ">", "\"">>}

\* the users of the includes
Users ==
    [present : {TRUE}, username : {<<"B", "o">>}, name : UserNames,
     profile_image_url : {"none"}]
    \cup [present : {TRUE}, username : {<<"o", "-">>}, name : {<<"A", "l">>},
          profile_image_url : {"remote"}]

\* the responses: tweet 1, with its author in the includes or not, with a
\* media object or none
Responses ==
    [tweet : [id : {1}, text : TweetTexts],
     user : Users \cup {NoAuthor},
     media : {<<>>} \cup {<<m>> : m \in MediaObjects}]

\* variant: the variants are left in the order of the response
SortByBitRateUnsorted(video_variants) == video_variants

\* video_variants.sort(key=lambda x: x.get('bit_rate', 0), reverse=True):
\* a stable sort by descending bit rate, as an insertion sort
SortByBitRate(video_variants) ==
    LET sorted[k \in 0..Len(video_variants)] ==
            IF k = 0 THEN <<>>
            ELSE LET v == video_variants[k]
                     done == sorted[k - 1]
                     n == Cardinality({i \in 1..Len(done) : done[i].bit_rate >= v.bit_rate})
                 IN  SubSeq(done, 1, n) \o <<v>> \o SubSeq(done, n + 1, Len(done))
    IN  sorted[Len(video_variants)]

\* lines 83-84: the variants whose content type starts with 'video/'
VideoVariants(variants) ==
    LET IsVideo(v) == StartsWithVideo(v.content_type) IN SelectSeq(variants, IsVideo)

\* lines 80-88: the url of the best video variant, or None
BestVariantUrl(video_variants) ==
    IF video_variants = <<>> THEN NoUrl ELSE SortByBitRate(video_variants)[1].url

\* lines 78-98 and 99-105: the url of the normalised media item
MediaUrl(media_obj) ==
    IF media_obj.type = "video"
    THEN IF BestVariantUrl(VideoVariants(media_obj.variants)) # NoUrl
         THEN BestVariantUrl(VideoVariants(media_obj.variants))
         ELSE media_obj.preview_image_url
    ELSE IF media_obj.url # NoUrl THEN media_obj.url
    ELSE media_obj.preview_image_url

\* process_bookmarks_response on a response with one tweet
ProcessBookmarksResponse(resp) ==
    << [id |-> resp.tweet.id, text |-> resp.tweet.text, author |-> resp.user,
        media |-> [j \in 1..Len(resp.media) |->
                      [media_key |-> resp.media[j].media_key,
                       type |-> resp.media[j].type,
                       url |-> MediaUrl(resp.media[j])]]] >>

(***************************************************************************)
(* generate_html of the legacy entry point (src/runner/__main__.py): the   *)
(* template compiles; Template(template_str) is built without autoescape.  *)
(***************************************************************************)
\* jinja2.Template(source) has autoescape=False
Autoescape == FALSE

\* markupsafe.escape on one character
EscapeChar(c) ==
    IF c = "<" THEN "&lt;"
    ELSE IF c = ">" THEN "&gt;"
    ELSE IF c = "&" THEN "&amp;"
    ELSE IF c = "\"" THEN "&#34;"
    ELSE IF c = "'" THEN "&#39;"
    ELSE c

Escape(str) == [i \in 1..Len(str) |-> EscapeChar(str[i])]

\* {{ value }} and {{ value | safe }}
Interpolate(value, safe) == IF Autoescape /\ ~safe THEN Escape(value) ELSE value

\* __main__.py, lines 223-363: the text, the display name and the handle
\* of the rendered document
LegacyGenerateHtml(tweet) ==
    [kind |-> "doc",
     text |-> Interpolate(tweet.text, TRUE),
     name |-> IF tweet.author.present THEN Interpolate(tweet.author.name, FALSE)
              ELSE <<>>,
     username |-> IF tweet.author.present THEN Interpolate(tweet.author.username, FALSE)
                  ELSE <<>>]

\* a response has arrived; the backup directory is empty
InitNormalize ==
    /\ BackupIdle
    /\ Started
    /\ response \in Responses
    /\ legacy_doc = NoDoc
    /\ NoViewer
    /\ NoLegacy

\* get_bookmarks, line 144, and backup_all_bookmarks, lines 155-158: the
\* response is processed and the loop over the records starts
ProcessResponse ==
    /\ pc = "idle"
    /\ bookmarks' = ProcessBookmarksResponse(response)
    /\ call' = [given |-> FALSE, list |-> <<>>, fetch |-> "data"]
    /\ stats' = [NoStats EXCEPT !.len = Len(bookmarks'), !.fetched = TRUE]
    /\ prev' = stats
    /\ run' = run + 1
    /\ pc' = "loop"
    /\ idx' = 1
    /\ saved_count' = 0
    /\ results' = <<>>
    /\ html0' = html
    /\ UNCHANGED <<html, avatars, files, truncated, snapshot, last, avatarDone, faults>>
    /\ UNCHANGED notBackupVars

\* the legacy entry point renders the same record
LegacyRender ==
    /\ pc = "done"
    /\ legacy_doc = NoDoc
    /\ legacy_doc' = LegacyGenerateHtml(bookmarks[1])
    /\ UNCHANGED <<response, backupVars, startupVars, viewerVars, legacyVars>>

NextNormalize == ProcessResponse \/ SaveStep \/ FinishRun \/ LegacyRender

SpecNormalize == InitNormalize /\ [][NextNormalize]_vars

(***************************************************************************)
(* The viewer: get_bookmark_files, extract_tweet_content and the handler   *)
(* of /api/bookmarks (src/viewer/server.py).  A stored document is a       *)
(* sequence of tokens, a file name the sequence "bookmark_", the digits of  *)
(* its id, ".html".                                                        *)
(***************************************************************************)
\* server.py:71
PerPage == 10

\* a complete artifact
ArtifactDoc ==
    <<"<html>", "<body>", "<div tweet>", "<div tweet-content>", "text", "</div>",
      "</div>", "<div backup-info>", "info", "</div>", "</body>", "</html>">>

\* an artifact whose write broke off, and a page without the tweet
\* container
TruncatedDoc == SubSeq(ArtifactDoc, 1, 5)
BodyOnlyDoc == <<"<html>", "<body>", "page", "</body>", "</html>">>

\* a file whose bytes are not UTF-8: f.read() on it raises
UnreadableDoc == <<"0xff">>

OddDocs == {TruncatedDoc, BodyOnlyDoc, UnreadableDoc}

\* open(file_path, 'r', encoding='utf-8') and f.read() return
Readable(doc) == doc # UnreadableDoc

DigitChars == <<"0", "1", "2", "3", "4", "5", "6", "7", "8", "9">>

\* the decimal digits of an id below 100
DigitsOf(id) ==
    IF id < 10 THEN <<DigitChars[id + 1]>>
    ELSE <<DigitChars[(id \div 10) + 1], DigitChars[(id % 10) + 1]>>

\* the name of the artifact of an id
FileName(id) == <<"bookmark_">> \o DigitsOf(id) \o <<".html">>

\* the code point of the first character of each token of a file name
CodePoints ==
    [tok \in {"bookmark_", ".html"} \cup {DigitChars[d] : d \in 1..10} |->
        IF tok = "bookmark_" THEN 98
        ELSE IF tok = ".html" THEN 46
        ELSE 47 + (CHOOSE d \in 1..10 : DigitChars[d] = tok)]

Ord(tok) == CodePoints[tok]

\* str < str on two file names
NameLess(a, b) ==
    \/ \E k \in 1..Len(a) :
          /\ k <= Len(b)
          /\ \A i \in 1..(k - 1) : a[i] = b[i]
          /\ Ord(a[k]) < Ord(b[k])
    \/ /\ Len(a) < Len(b)
       /\ \A i \in 1..Len(a) : a[i] = b[i]

\* sorted(names, reverse=True) on the names of the first n ids
SortedReverse(n) ==
    LET names == [i \in 1..n |-> FileName(i)]
        rank == [i \in 1..n |->
                    Cardinality({m \in 1..n : NameLess(names[m], names[i])})]
        sorted == [k \in 1..n |-> names[CHOOSE i \in 1..n : rank[i] = k - 1]]
    IN  [k \in 1..n |-> sorted[n + 1 - k]]

\* the listings, by the number of files in the directory
Listings == [n \in 0..MaxFiles |-> SortedReverse(n)]

\* get_bookmark_files: the names of the files, sorted, reversed
GetBookmarkFiles(dir) == Listings[Len(dir)]

\* str.replace(tok, '') on a file name
Replace(name, tok) == SelectSeq(name, LAMBDA t : t # tok)

\* filename.replace('bookmark_', '').replace('.html', '')
TweetIdOf(filename) == Replace(Replace(filename, "bookmark_"), ".html")

\* bookmark_dir / filename: the position of the file a name stands for
IdOfName(n) ==
    LET d == [k \in 1..(Len(n) - 2) |-> Ord(n[k + 1]) - 48]
    IN  IF Len(d) = 1 THEN d[1] ELSE 10 * d[1] + d[2]

\* re.search(r'<div class="tweet">(.*?)</div>\s*<div class="backup-info">'):
\* the pairs <<a, b>> of a tweet container at a and a "</div>" at b that is
\* followed by the backup-info container
TweetMatches(doc) ==
    {ab \in (1..Len(doc)) \X (1..Len(doc)) :
        /\ doc[ab[1]] = "<div tweet>"
        /\ ab[2] > ab[1] /\ ab[2] < Len(doc)
        /\ doc[ab[2]] = "</div>" /\ doc[ab[2] + 1] = "<div backup-info>"}

\* re.search(r'<body>(.*?)</body>')
BodyMatches(doc) ==
    {ab \in (1..Len(doc)) \X (1..Len(doc)) :
        /\ doc[ab[1]] = "<body>"
        /\ ab[2] > ab[1]
        /\ doc[ab[2]] = "</body>"}

\* the group of the leftmost match, the shortest at that start
FirstGroup(doc, matches) ==
    LET ab == CHOOSE x \in matches :
                  \A y \in matches : x[1] < y[1] \/ (x[1] = y[1] /\ x[2] <= y[2])
    IN  SubSeq(doc, ab[1] + 1, ab[2] - 1)

\* extract_tweet_content
ExtractTweetContent(html_content) ==
    IF TweetMatches(html_content) # {} THEN FirstGroup(html_content, TweetMatches(html_content))
    ELSE IF BodyMatches(html_content) # {} THEN FirstGroup(html_content, BodyMatches(html_content))
    ELSE html_content

\* variant: the slice ends one file early
PageSliceShort(bookmark_files, start_idx, end_idx) ==
    [k \in 1..(IF end_idx - 1 <= Len(bookmark_files)
               THEN (IF end_idx - 1 > start_idx THEN end_idx - 1 - start_idx ELSE 0)
               ELSE (IF Len(bookmark_files) > start_idx
                     THEN Len(bookmark_files) - start_idx ELSE 0)) |->
        bookmark_files[start_idx + k]]

\* bookmark_files[start_idx:end_idx], with the indices of Python
PageSlice(bookmark_files, start_idx, end_idx) ==
    [k \in 1..(IF end_idx <= Len(bookmark_files)
               THEN end_idx - start_idx
               ELSE (IF Len(bookmark_files) > start_idx
                     THEN Len(bookmark_files) - start_idx ELSE 0)) |->
        bookmark_files[start_idx + k]]

\* f"<div class='error'>Failed to load {filename}: {e}</div>"
ErrorContent(filename) == <<"<div error>">> \o filename \o <<"</div>">>

\* the entry of one file, lines 90-108: the except branch appends an entry
\* of filename and content only
Entry(dir, filename) ==
    IF Readable(dir[IdOfName(filename)])
    THEN [filename |-> filename,
          content |-> ExtractTweetContent(dir[IdOfName(filename)]),
          id |-> TweetIdOf(filename)]
    ELSE [filename |-> filename,
          content |-> ErrorContent(filename)]

\* the handler of /api/bookmarks for page; bookmark_files is what
\* get_bookmark_files returned
ApiBookmarks(dir, bookmark_files, page) ==
    LET total_bookmarks == Len(bookmark_files)
        start_idx == (page - 1) * PerPage
        end_idx == start_idx + PerPage
        slice == PageSlice(bookmark_files, start_idx, end_idx)
    IN  IF bookmark_files = <<>>
        THEN [kind |-> "list", status |-> "ok", page |-> page, bookmarks |-> <<>>,
              has_more |-> FALSE, total |-> 0]
        ELSE [kind |-> "list", status |-> "ok", page |-> page,
              bookmarks |-> [k \in 1..Len(slice) |-> Entry(dir, slice[k])],
              has_more |-> end_idx < total_bookmarks,
              total |-> total_bookmarks]

\* the files that are not complete artifacts
OddFiles(dir) == {i \in 1..Len(dir) : dir[i] # ArtifactDoc}

\* the viewer starts on an empty directory
InitViewer ==
    /\ BackupIdle
    /\ Started
    /\ NoNormalize
    /\ NoLegacy
    /\ stored = <<>>
    /\ reply = NoReply

\* a file bookmark_<id>.html appears in viewer/bookmarks; at most one file
\* is not a complete artifact
AddFile ==
    /\ Len(stored) < MaxFiles
    /\ \E doc \in {ArtifactDoc} \cup OddDocs :
          /\ doc # ArtifactDoc => OddFiles(stored) = {}
          /\ stored' = Append(stored, doc)
    /\ reply' = NoReply
    /\ UNCHANGED <<backupVars, startupVars, normalizeVars, legacyVars>>

\* the response of a route that sends a file or a template
FileReply(kind, code) ==
    [kind |-> kind, status |-> code, page |-> 0, bookmarks |-> <<>>,
     has_more |-> FALSE, total |-> 0]

\* send_from_directory(directory, filename): the file when it is found
\* under the directory, NotFound otherwise.  The directory is a relative
\* path, which the library resolves against the application's root and
\* not against the working directory the listing uses, so an existing file
\* may be found or not
SendFromDirectory(exists) == IF exists THEN {"ok", "not_found"} ELSE {"not_found"}

\* variant: the handler of a request rewrites the first document it read
AfterRequestRewrites(dir) ==
    IF dir = <<>> THEN dir ELSE [dir EXCEPT ![1] = ExtractTweetContent(dir[1])]

\* viewer/bookmarks after a request: the handlers of lines 62-132 open
\* files for reading only (open(file_path, 'r'), send_from_directory,
\* render_template)
AfterRequest(dir) == dir

\* GET /api/bookmarks?page=<page>
GetPage ==
    /\ \E bookmark_files \in {GetBookmarkFiles(stored)} :
          \E page \in 1..MaxPage : reply' = ApiBookmarks(stored, bookmark_files, page)
    /\ stored' = AfterRequest(stored)
    /\ UNCHANGED <<backupVars, startupVars, normalizeVars, legacyVars>>

\* GET /bookmark/<filename>, for the name of a stored file or of the next id
ServeBookmark ==
    /\ \E i \in 1..(Len(stored) + 1) :
          \E code \in SendFromDirectory(i <= Len(stored)) :
              reply' = FileReply("document", code)
    /\ stored' = AfterRequest(stored)
    /\ UNCHANGED <<backupVars, startupVars, normalizeVars, legacyVars>>

\* GET /media/<filename>, for the name of a media file
ServeMedia ==
    /\ \E f \in Ids \X MediaKeys \X Extensions :
          \E code \in SendFromDirectory(f \in files) :
              reply' = FileReply("media", code)
    /\ stored' = AfterRequest(stored)
    /\ UNCHANGED <<backupVars, startupVars, normalizeVars, legacyVars>>

\* GET / and GET /favicon.ico: a template and a file of viewer/static
ServeStatic ==
    /\ \E kind \in {"index", "favicon"} : reply' = FileReply(kind, "ok")
    /\ stored' = AfterRequest(stored)
    /\ UNCHANGED <<backupVars, startupVars, normalizeVars, legacyVars>>

NextViewer == AddFile \/ GetPage \/ ServeBookmark \/ ServeMedia \/ ServeStatic

SpecViewer == InitViewer /\ [][NextViewer]_vars

(***************************************************************************)
(* The runner entry point (src/runner/__main__.py): save_bookmark with the *)
(* index of saved ids, in a process that can be started again.             *)
(***************************************************************************)
\* open(path, 'w') and the write that follows: both succeed, open raises
\* (the file is as it was), or the write raises after the file was
\* truncated
LegacyWriteOutcomes == {"ok", "open_fails", "write_fails"}

\* saved_bookmarks.json after a write that broke off: json.load raises
CorruptIndex == [readable |-> FALSE, ids |-> {}]

\* the record get_bookmarks of __main__.py makes of post id
LegacyTweet(id) == [id |-> id, media |-> MediaOf(id)]

\* the environments of a save_bookmark call on tweet
LegacyEnvs(tweet) ==
    [media : [1..Len(tweet.media) -> DownloadOutcomes],
     html : LegacyWriteOutcomes,
     index : LegacyWriteOutcomes]

\* _load_saved_bookmarks
LoadSavedBookmarks(file) ==
    IF file.readable THEN [raised |-> FALSE, saved_bookmarks |-> file.ids]
    ELSE [raised |-> TRUE, saved_bookmarks |-> {}]

\* _save_bookmark_id: the id is added to the set, then the set is dumped
SaveBookmarkId(index, file, bookmark_id, out) ==
    LET added == index \cup {bookmark_id} IN
    IF out = "ok"
    THEN [saved_bookmarks |-> added, file |-> [readable |-> TRUE, ids |-> added],
          opened |-> TRUE, raised |-> FALSE]
    ELSE IF out = "open_fails"
    THEN [saved_bookmarks |-> added, file |-> file, opened |-> FALSE, raised |-> TRUE]
    ELSE [saved_bookmarks |-> added, file |-> CorruptIndex, opened |-> TRUE,
          raised |-> TRUE]

\* download_media of __main__.py, and lines 376-381 of save_bookmark: st is
\* [files, requests, opens]
LegacyDownloadMedia(st, name, out) ==
    IF out = "http_error"
    THEN [st EXCEPT !.requests = @ + 1]
    ELSE [st EXCEPT !.files = @ \cup {name}, !.requests = @ + 1, !.opens = @ + 1]

\* save_bookmark, lines 375-381: the loop over the media of the tweet
LegacyResolveMedia(tweet, media_files, env) ==
    LET after[j \in 0..Len(tweet.media)] ==
            IF j = 0 THEN [files |-> media_files, requests |-> 0, opens |-> 0]
            ELSE IF tweet.media[j].type \in {"photo", "video"}
            THEN LegacyDownloadMedia(after[j - 1],
                                     <<tweet.id, tweet.media[j].media_key>>, env[j])
            ELSE after[j - 1]
    IN  after[Len(tweet.media)]

\* variant: the id is marked as saved whatever became of the write
MarkedAsSavedAlways(html_out) == TRUE

\* save_bookmark, lines 386-391: _save_bookmark_id is reached when the
\* write of the HTML file returned
MarkedAsSaved(html_out) == html_out = "ok"

\* bookmark_<id>.html after lines 386-388
LegacyWriteHtml(file, html_out) ==
    IF html_out = "open_fails" THEN file
    ELSE IF html_out = "write_fails" THEN Partial
    ELSE Complete

\* save_bookmark of __main__.py on tweet; d is [saved_bookmarks, file, html,
\* files]
LegacySaveBookmark(tweet, d, env) ==
    IF tweet.id \in d.saved_bookmarks
    THEN [saved_bookmarks |-> d.saved_bookmarks, file |-> d.file, html |-> d.html,
          files |-> d.files, requests |-> 0, opens |-> 0, ret |-> FALSE]
    ELSE LET m == LegacyResolveMedia(tweet, d.files, env.media)
             html_ == [d.html EXCEPT ![tweet.id] = LegacyWriteHtml(@, env.html)]
             html_opened == IF env.html = "open_fails" THEN 0 ELSE 1
             s == SaveBookmarkId(d.saved_bookmarks, d.file, tweet.id, env.index)
         IN  IF MarkedAsSaved(env.html)
             THEN [saved_bookmarks |-> s.saved_bookmarks, file |-> s.file,
                   html |-> html_, files |-> m.files, requests |-> m.requests,
                   opens |-> m.opens + html_opened + (IF s.opened THEN 1 ELSE 0),
                   ret |-> env.html = "ok" /\ ~s.raised]
             ELSE [saved_bookmarks |-> d.saved_bookmarks, file |-> d.file,
                   html |-> html_, files |-> m.files, requests |-> m.requests,
                   opens |-> m.opens + html_opened, ret |-> FALSE]

InitLegacy ==
    /\ BackupIdle
    /\ Started
    /\ NoNormalize
    /\ NoViewer
    /\ NoLegacy

\* backup_all_bookmarks of __main__.py, lines 411-413: save_bookmark is
\* called on a record of the fetched list
LegacySave ==
    /\ legacy_pc = "running"
    /\ \E id \in Ids :
        \E tweet \in {LegacyTweet(id)} :
        \E env \in LegacyEnvs(tweet) :
        \E r \in {LegacySaveBookmark(tweet,
                      [saved_bookmarks |-> saved_bookmarks, file |-> saved_bookmarks_file,
                       html |-> legacy_html, files |-> legacy_files], env)} :
          /\ saved_bookmarks' = r.saved_bookmarks
          /\ saved_bookmarks_file' = r.file
          /\ legacy_html' = r.html
          /\ legacy_files' = r.files
          /\ legacy_last' = [valid |-> TRUE, id |-> id, indexed |-> id \in saved_bookmarks,
                             ret |-> r.ret, requests |-> r.requests, opens |-> r.opens]
    /\ UNCHANGED legacy_pc
    /\ UNCHANGED <<backupVars, startupVars, normalizeVars, viewerVars>>

\* main and __init__, line 45: the process is started again and loads the
\* index; when json.load raises, main logs and exits with 1
LegacyLaunch ==
    /\ \E l \in {LoadSavedBookmarks(saved_bookmarks_file)} :
          /\ saved_bookmarks' = l.saved_bookmarks
          /\ legacy_pc' = IF l.raised THEN "exit1" ELSE "running"
    /\ legacy_last' = NoLegacyCall
    /\ UNCHANGED <<saved_bookmarks_file, legacy_html, legacy_files>>
    /\ UNCHANGED <<backupVars, startupVars, normalizeVars, viewerVars>>

NextLegacy == LegacySave \/ LegacyLaunch

SpecLegacy == InitLegacy /\ [][NextLegacy]_vars

(***************************************************************************)
(* Properties of the backup run.                                           *)
(***************************************************************************)
\* the step about to be taken is save_bookmark on bookmarks[idx]
AtSave == pc = "loop" /\ idx <= Len(bookmarks)

\* this run and the run before it processed the same batch and this run is
\* over
SameBatchTwice == run >= 2 /\ stats.finished /\ stats.len = prev.len

C2_SkipExisting ==
    [][(AtSave /\ html[bookmarks[idx].id] # NoFile) =>
          /\ html' = html /\ avatars' = avatars
          /\ files' = files /\ truncated' = truncated
          /\ last'.ret = FALSE /\ last'.requests = 0 /\ last'.opens = 0
          /\ results' = Append(results, FALSE)]_vars

\* a record with an author and media was skipped for its existing artifact
C2_Witness ==
    /\ last.valid /\ last.existed
    /\ last.tweet.author.present
    /\ Len(last.tweet.media) > 0
    /\ avatars[SafeUsername(last.tweet.author.username)] = Absent

\* C3 as stated: a save_bookmark call on a record whose artifact does not
\* exist, in which no request and no write fails, writes bookmark_<id>.html
\* with the rendered record and returns True.
C3_RenderAndPersist ==
    (/\ last.valid /\ ~last.existed
     /\ last.avatar # "failed"
     /\ \A j \in 1..Len(last.acts) : last.acts[j] # "failed"
     /\ last.error # "write")
    => (last.ret /\ html[last.id] = Render(last.tweet))

\* C4: an artifact that exists is never modified, replaced or deleted.
C4_PermanentArchival ==
    [][\A i \in Ids : html[i] # NoFile => html'[i] = html[i]]_vars

\* in a later run, a record with the id of an archived artifact and another
\* text went through save_bookmark
C4_Witness ==
    /\ run >= 2
    /\ last.valid /\ last.existed
    /\ html[last.id] # NoFile
    /\ last.tweet.text # html[last.id].text

\* C5: every save_bookmark call of the loop returns to the loop, which goes
\* on with the next record: the calls are made once per record, in order,
\* and no failure leaves the loop.
C5_FailureIsolation ==
    [][AtSave =>
          /\ pc' = "loop"
          /\ idx' = idx + 1
          /\ Len(results') = idx
          /\ last'.valid /\ last'.id = bookmarks[idx].id]_vars

\* a run is over in which the first record failed after a failed download
\* and the second record was attempted
C5_Witness ==
    /\ pc = "done"
    /\ Len(bookmarks) = 2 /\ Len(results) = 2
    /\ stats.failed
    /\ ~results[1]
    /\ last.id = bookmarks[2].id

\* C6: the reported count is the number of True results of the run and the
\* number of artifacts that exist after the run and did not before it.
C6_ReportedCount ==
    pc = "done" =>
        /\ stats.saved = Cardinality({i \in 1..Len(results) : results[i]})
        /\ stats.saved = Cardinality({i \in Ids : html0[i] = NoFile /\ html[i] # NoFile})

\* a run is over that skipped one record and failed on another
C6_Witness ==
    /\ pc = "done"
    /\ Len(bookmarks) = 2
    /\ html0[bookmarks[1].id] # NoFile
    /\ html0[bookmarks[2].id] = NoFile
    /\ last.error # "none"

\* C7: once the avatar of a username has been downloaded, no save_bookmark
\* call for a bookmark of that username requests the avatar again.
C7_AvatarOnce ==
    [][(AtSave /\ bookmarks[idx].author.present
              /\ bookmarks[idx].author.username \in avatarDone) =>
          last'.avatar \in {"none", "cached"}]_vars

\* a bookmark of a username whose avatar was downloaded for another
\* bookmark found it cached
C7_Witness ==
    /\ last.valid /\ last.avatar = "cached"
    /\ idx = 3 /\ bookmarks[1].id # bookmarks[2].id
    /\ last.username \in avatarDone
    /\ avatars[SafeUsername(last.username)] = Complete

\* the extensions download_media gives a file of a media type
ProducedExtensions(media_type) ==
    IF media_type = "photo" THEN {".jpg", ".png", ".gif"}
    ELSE IF media_type = "video" THEN {".mp4", ".webm", ".mov"}
    ELSE {}

\* C8 as stated: a photo or video item of which a file <id>_<media_key>
\* exists under an extension of its type is not downloaded again, and its
\* url becomes the path of an existing file.
C8_MediaReuse ==
    [][(AtSave /\ html[bookmarks[idx].id] = NoFile) =>
          \A j \in 1..Len(bookmarks[idx].media) :
              LET m == bookmarks[idx].media[j] IN
              (\E ext \in ProducedExtensions(m.type) :
                   <<bookmarks[idx].id, m.media_key, ext>> \in files)
              => /\ last'.acts[j] = "reused"
                 /\ last'.tweet.media[j].url.loc = "local"
                 /\ last'.tweet.media[j].url.path \in files]_vars

\* C9 as stated: when the download of a media item fails, the item keeps
\* its url, every other photo or video item is resolved to a local path, the
\* artifact is written and save_bookmark returns True.
C9_MediaFailureIsolation ==
    (/\ last.valid /\ ~last.existed
     /\ \E j \in 1..Len(last.acts) : last.acts[j] = "failed"
     /\ last.error # "write")
    => /\ Len(last.acts) = Len(last.tweet.media)
       /\ \A j \in 1..Len(last.acts) :
             /\ last.acts[j] = "failed" => last.tweet.media[j].url.loc # "local"
             /\ last.acts[j] \in {"reused", "downloaded"} =>
                    last.tweet.media[j].url.loc = "local"
       /\ last.ret
       /\ html[last.id] # NoFile

\* C10 as stated: when the avatar download fails, the artifact is written
\* and save_bookmark returns True.
C10_AvatarFailureNonFatal ==
    (last.valid /\ last.avatar = "failed" /\ last.error # "write")
    => (last.ret /\ html[last.id] # NoFile)

\* the ids of a list of bookmarks
IdsOf(list) == [i \in 1..Len(list) |-> list[i].id]

\* C11 as stated: a backup_all_bookmarks call that is passed a list, of any
\* length, does not call get_bookmarks and processes the records of that
\* list.
C11_OverrideBatch ==
    (pc \in {"loop", "done"} /\ call.given) =>
        /\ call.fetch = "not_called"
        /\ IdsOf(bookmarks) = IdsOf(call.list)

\* C12: when client.get_bookmarks raises or returns no data, the run calls
\* save_bookmark on no record, opens no file for writing, issues no
\* download, leaves the artifacts as they were, reports zero and ends.
C12_FetchFailureEmptyRun ==
    (pc # "idle" /\ call.fetch \in {"no_data", "raises"}) =>
        /\ pc \in {"loop", "done"}
        /\ bookmarks = <<>> /\ results = <<>>
        /\ stats.requests = 0 /\ stats.opens = 0
        /\ html = html0
        /\ saved_count = 0
        /\ pc = "done" => stats.saved = 0

\* a run whose fetch raised is over, and the account has bookmarks that are
\* not archived
C12_Witness ==
    /\ pc = "done" /\ call.fetch = "raises"
    /\ snapshot # <<>>
    /\ \E i \in 1..Len(snapshot) : html[snapshot[i].id] = NoFile

(***************************************************************************)
(* Properties of the start of the runner.                                  *)
(***************************************************************************)
Has(e) == \E i \in 1..Len(events) : events[i] = e

AuthorizeEvents == {"authorize_ok", "authorize_no_code", "authorize_failed"}

\* the credential get_oauth2_token read has an access token and a refresh
\* token and is_token_expired says it is expired
ExpiredWithRefreshToken ==
    /\ token_data.exists /\ token_data.access_token # 0
    /\ token_data.refresh_token
    /\ IsTokenExpired(token_data, now)

C14_ExpiryMargin ==
    (token_data.exists /\ token_data.access_token # 0 /\ token_data.expires_at # 0) =>
        /\ IsTokenExpired(token_data, now) <=> (now >= token_data.expires_at - Margin)
        /\ (step \in {"client", "done"} /\ ~Has("refresh_ok") /\ ~Has("authorize_ok"))
               => now < token_data.expires_at - Margin

\* C15: when config.json does not exist at the start, the default config is
\* written and the process exits with status 1, having read no credential,
\* made no request, and created or written nothing in the backup directory;
\* a process that has exited does nothing more.
C15_MissingConfigFatal ==
    [][/\ (status = "running" /\ step = "new" /\ config = "absent") =>
              /\ status' = "exit1"
              /\ config' = "stub"
              /\ events' = <<"write_config">>
              /\ token_file' = token_file /\ token_data' = NoToken
              /\ access_token' = 0
              /\ backup_dir' = backup_dir
              /\ backupVars' = backupVars
       /\ status = "exit1" => launches' = launches + 1]_vars

\* the process exited on a missing config while a credential was persisted
\* and the backup directory did not exist
C15_Witness ==
    /\ status = "exit1"
    /\ events = <<"write_config">>
    /\ config = "stub"
    /\ token_file.exists /\ token_file.access_token # 0
    /\ ~backup_dir

(***************************************************************************)
(* Properties of the normalisation and of the rendered document.           *)
(***************************************************************************)
\* process_bookmarks_response has returned and no record has been saved yet
JustProcessed == pc = "loop" /\ idx = 1 /\ response # NoResponse

\* the variants of a list whose content type starts with 'video/'
Qualifying(variants) ==
    {i \in 1..Len(variants) : StartsWithVideo(variants[i].content_type)}

\* C16: the url of a normalised video item is the url of a variant of the
\* highest bit rate among the variants whose content type starts with
\* 'video/', whatever the bit rate of the other variants; when there is no
\* such variant it is the preview-image url.
C16_VideoUrlSelection ==
    JustProcessed =>
        \A j \in 1..Len(response.media) :
            LET m == response.media[j]
                q == Qualifying(m.variants)
                url == bookmarks[1].media[j].url
            IN  m.type = "video" =>
                    IF q # {}
                    THEN \E i \in q :
                            /\ \A k \in q : m.variants[i].bit_rate >= m.variants[k].bit_rate
                            /\ url = m.variants[i].url
                    ELSE url = m.preview_image_url

\* a video whose variants are an MP4 of no stated bit rate, an MP4 of
\* 256000 and a playlist of 800000 was given the url of the second
C16_Witness ==
    /\ JustProcessed
    /\ Len(response.media) = 1
    /\ response.media[1].type = "video"
    /\ Len(response.media[1].variants) = 3
    /\ response.media[1].variants[1].content_type = "video/mp4"
    /\ response.media[1].variants[1].bit_rate = 0
    /\ response.media[1].variants[2].content_type = "video/mp4"
    /\ response.media[1].variants[2].bit_rate = 256000
    /\ response.media[1].variants[3].content_type = "application/x-mpegURL"
    /\ response.media[1].variants[3].bit_rate = 800000
    /\ bookmarks[1].media[1].url = Url("v2")

\* C17 as stated: for a media object without url, variants and preview
\* image, the normalised url is None, and save_bookmark on the record
\* writes the artifact, of which the media section has no url, and returns
\* True.
C17_NoResolvableUrl ==
    (/\ response # NoResponse
     /\ last.valid /\ last.error # "write"
     /\ Len(response.media) = 1
     /\ response.media[1].url = NoUrl
     /\ response.media[1].variants = <<>>
     /\ response.media[1].preview_image_url = NoUrl)
    => /\ last.tweet.media[1].url = NoUrl
       /\ last.ret
       /\ html[last.id] = Render(last.tweet)

\* C18 as stated: save_bookmark writes an artifact that holds the text of
\* the post as given, and a document generate_html renders holds the text
\* as given and the display name and the handle of the author escaped.
C18_Escaping ==
    /\ (response # NoResponse /\ last.valid /\ last.error # "write") =>
           (html[last.id] # NoFile /\ html[last.id].text = response.tweet.text)
    /\ legacy_doc # NoDoc =>
           /\ legacy_doc.text = response.tweet.text
           /\ response.user.present =>
                  /\ legacy_doc.name = Escape(response.user.name)
                  /\ legacy_doc.username = Escape(response.user.username)

(***************************************************************************)
(* Properties of the viewer.                                               *)
(***************************************************************************)
\* the smaller of two numbers
Min(a, b) == IF a <= b THEN a ELSE b

\* C19: the response for page p holds the files at the positions
\* 10(p-1) .. min(10p, N)-1 of the listing of the N files by descending
\* name, total is N and has_more is (10p < N).
C19_Pagination ==
    reply.kind = "list" =>
        \A listing \in {GetBookmarkFiles(stored)} :
        LET N == Len(stored)
            p == reply.page
            first == PerPage * (p - 1)
            last_ == Min(PerPage * p, N) - 1
        IN  /\ \A i \in 1..(N - 1) : NameLess(listing[i + 1], listing[i])
            /\ {listing[i] : i \in 1..N} = {FileName(i) : i \in 1..N}
            /\ reply.total = N
            /\ reply.has_more = (PerPage * p < N)
            /\ Len(reply.bookmarks) = (IF last_ >= first THEN last_ - first + 1 ELSE 0)
            /\ \A k \in 1..Len(reply.bookmarks) :
                   reply.bookmarks[k].filename = listing[first + k]

\* with 25 files, page 3 was answered with 5 files and has_more false, the
\* last of them bookmark_1.html
C19_Witness ==
    /\ Len(stored) = 25
    /\ reply.page = 3
    /\ Len(reply.bookmarks) = 5
    /\ ~reply.has_more
    /\ reply.total = 25
    /\ reply.bookmarks[5].filename = <<"bookmark_", "1", ".html">>
    /\ reply.bookmarks[1].filename = <<"bookmark_", "1", "3", ".html">>

\* C20 as stated: the content of every entry of a response is what stands
\* between the tweet container and the backup-info container of the stored
\* document, or between <body> and </body> when there is no such pair, and
\* is never the stored document as a whole (for the files that can be read).
C20_FragmentExtraction ==
    \A k \in 1..Len(reply.bookmarks) :
        LET doc == stored[IdOfName(reply.bookmarks[k].filename)]
            content == reply.bookmarks[k].content
        IN  Readable(doc) =>
            /\ \/ \E ab \in TweetMatches(doc) : content = SubSeq(doc, ab[1] + 1, ab[2] - 1)
               \/ /\ TweetMatches(doc) = {}
                  /\ \E ab \in BodyMatches(doc) : content = SubSeq(doc, ab[1] + 1, ab[2] - 1)
            /\ content # doc

\* C21 as stated: every entry of a list response carries exactly filename,
\* content and id, and id is the file name without "bookmark_" and ".html";
\* also for a file that cannot be read.
C21_ListResponseShape ==
    \A k \in 1..Len(reply.bookmarks) :
        /\ DOMAIN reply.bookmarks[k] = {"filename", "content", "id"}
        /\ reply.bookmarks[k].id = DigitsOf(IdOfName(reply.bookmarks[k].filename))

\* C23 as stated: at every point of a backup run, every avatar file and
\* every media file at its final path is complete (or absent), also after
\* a download that failed in the middle of the stream.
C23_WholeBufferWrites ==
    /\ \A n \in SafeNames : avatars[n] \in {Absent, Complete}
    /\ truncated = {}

\* C24: an artifact that is truncated stays as it is in every step of every
\* run, and save_bookmark on its id returns False without a request and
\* without opening a file for writing.
C24_TruncatedNeverRetried ==
    [][/\ \A i \in Ids : html[i] = TruncatedArtifact => html'[i] = TruncatedArtifact
       /\ (AtSave /\ html[bookmarks[idx].id] = TruncatedArtifact) =>
              /\ ~last'.ret
              /\ last'.requests = 0
              /\ last'.opens = 0
              /\ Disk' = Disk]_vars

\* the second run is over, it was given a record of the truncated artifact
\* and returned False for it
C24_Witness ==
    /\ run = 2
    /\ pc = "done"
    /\ last.valid
    /\ html[last.id] = TruncatedArtifact
    /\ ~last.ret
    /\ last.existed

\* C25 as stated: when save_bookmark has stored the avatar of the author,
\* the artifact of the record is written and the avatar path it references
\* is the file the store wrote, avatars/<safe_username>.jpg.
C25_AvatarNaming ==
    (last.valid /\ ~last.existed /\ last.avatar = "downloaded") =>
        /\ avatars[SafeUsername(last.username)] = Complete
        /\ AvatarSrc(last.username) = AvatarFile(last.username)
        /\ html[last.id] # NoFile

\* C27 as stated: for a record whose media item is neither a photo nor a
\* video, save_bookmark issues no download for the item, looks for and
\* writes no media file, leaves the url of the item as the normalisation
\* gave it (remote), writes the artifact and returns True.
C27_OtherMediaUntouched ==
    (/\ response # NoResponse
     /\ last.valid /\ ~last.existed /\ last.error # "write"
     /\ Len(last.tweet.media) = 1
     /\ last.tweet.media[1].type \notin {"photo", "video"})
    => /\ last.acts = <<"untouched">>
       /\ last.requests = (IF last.avatar \in {"downloaded", "failed"} THEN 1 ELSE 0)
       /\ files = {}
       /\ last.tweet.media[1].url = MediaUrl(response.media[1])
       /\ last.tweet.media[1].url.loc = "remote"
       /\ last.ret
       /\ html[last.id] = Render(last.tweet)

\* the credential get_oauth2_token read has an access token and no
\* expires_at
WithoutExpiry ==
    /\ token_data.exists /\ token_data.access_token # 0
    /\ token_data.expires_at = 0

\* C28: a credential read with an access token and without expires_at is
\* expired for is_token_expired at every time; its access token is never
\* the one returned; with a refresh token the refresh is attempted before
\* anything else, without one the authorization-code flow is, and no
\* refresh.
C28_NoExpiryNeverReused ==
    WithoutExpiry =>
        /\ IsTokenExpired(token_data, now)
        /\ access_token # token_data.access_token
        /\ step \in {"client", "done"} => (Has("refresh_ok") \/ Has("authorize_ok"))
        /\ IF token_data.refresh_token
           THEN /\ step # "refresh" => (Has("refresh_ok") \/ Has("refresh_failed"))
                /\ \A j \in 1..Len(events) :
                       events[j] \in AuthorizeEvents =>
                           (j > 1 /\ events[j - 1] = "refresh_failed")
           ELSE /\ ~Has("refresh_ok") /\ ~Has("refresh_failed")
                /\ step = "authorize" \/ \E j \in 1..Len(events) : events[j] \in AuthorizeEvents

\* a credential without expires_at and with a refresh token was read long
\* before any expiry time of the model, the refresh succeeded and the
\* process went on with the new access token
C28_Witness ==
    /\ WithoutExpiry
    /\ token_data.refresh_token
    /\ now < ExpiresAt - Margin
    /\ status = "ready"
    /\ Has("refresh_ok")
    /\ access_token = token_file.access_token

\* C26: after every step, every id of the index (in memory and in
\* saved_bookmarks.json) has its bookmark_<id>.html written in full; and a
\* save_bookmark call on an id of the index returns False, issues no
\* request, opens no file and leaves the files and the index as they were.
C26_LegacyIndexConsistent ==
    [][/\ \A i \in saved_bookmarks' \cup saved_bookmarks_file'.ids :
              legacy_html'[i] = Complete
       /\ (legacy_last'.valid /\ legacy_last'.id \in saved_bookmarks) =>
              /\ ~legacy_last'.ret
              /\ legacy_last'.requests = 0
              /\ legacy_last'.opens = 0
              /\ legacy_html' = legacy_html
              /\ legacy_files' = legacy_files
              /\ saved_bookmarks' = saved_bookmarks
              /\ saved_bookmarks_file' = saved_bookmarks_file]_vars

\* post 1, which has media, is in the index on disk and the last call, on
\* it, was skipped; the HTML write of post 2 broke off and post 2 is not
\* in the index
C26_Witness ==
    /\ legacy_last.valid /\ legacy_last.id = 1 /\ legacy_last.indexed
    /\ ~legacy_last.ret
    /\ 1 \in saved_bookmarks_file.ids
    /\ legacy_html[2] = Partial
    /\ 2 \notin saved_bookmarks

\* C22: a step that answers a viewer request (of the list, of a document,
\* of a media file, of the index or the icon) leaves every file of the
\* archive as it was: the documents, the avatars and the media files.
C22_ViewerReadOnly ==
    [][reply' # NoReply =>
          /\ stored' = stored
          /\ html' = html
          /\ avatars' = avatars
          /\ files' = files
          /\ truncated' = truncated]_vars

\* a document was requested and sent while the archive holds a file that
\* is not a complete artifact
C22_Witness ==
    /\ reply.kind = "document"
    /\ reply.status = "ok"
    /\ OddFiles(stored) # {}

====
